---- MODULE Spec2Model ----
(***************************************************************************)
(* Telemetry wire format: the encoder and decoder of protocol.py.          *)
(*                                                                         *)
(* Bytes are integers 0..255 and a buffer is a sequence of bytes.          *)
(* A Python int that may exceed 31 bits (seq_num, timestamp) is held as a  *)
(* pair of limbs <<hi, lo>> standing for hi * 65536 + lo, 0 <= lo < 65536. *)
(* A Python float (IEEE-754 double) is the record                          *)
(*   [sign, exp, hi, lo]  with exp the biased 11-bit exponent and the      *)
(* 52-bit fraction split in its upper 23 bits (hi) and lower 29 bits (lo). *)
(***************************************************************************)
EXTENDS Integers, Sequences, FiniteSets, TLC

VERSION == 1
MSG_INIT == 0
MSG_DATA == 1
SENSOR_TEMP == 1
SENSOR_HUM == 2
SENSOR_VOLT == 3
HEADER_SIZE == 12
READING_SIZE == 5
PAYLOAD_LIMIT == 200

RECURSIVE Pow2(_)
Pow2(n) == IF n = 0 THEN 1 ELSE 2 * Pow2(n - 1)

\* data[from:to] of Python: 0-based, end exclusive, clipped to the buffer
Slice(data, from, to) ==
    LET hiEnd == IF to < Len(data) THEN to ELSE Len(data)
    IN  IF from >= hiEnd THEN << >> ELSE SubSeq(data, from + 1, hiEnd)

\* results of a call: a value, or the exception it raised
Ok(v) == [ok |-> TRUE, val |-> v]
Raise(e) == [ok |-> FALSE, err |-> e]

ErrHeaderShort == "ValueError: Data too short for header"
ErrPayload == "ValueError: Packet exceeds payload limit"
ErrPackRange == "struct.error: format requires 0 <= number <= max"
ErrPackFloat == "OverflowError: float too large to pack with f format"
ErrUnpackShort == "struct.error: unpack requires a buffer of 5 bytes"

(***************************************************************************)
(* struct formats                                                          *)
(***************************************************************************)
\* 'B': one unsigned byte
PackB(n) == IF n >= 0 /\ n <= 255 THEN Ok(<<n>>) ELSE Raise(ErrPackRange)

\* PackH without the range check: the value is cut to 16 bits
PackH_truncating(n) == Ok(<<(n % 65536) \div 256, n % 256>>)

\* 'H': two bytes, big-endian
PackH(n) ==
    IF n >= 0 /\ n <= 65535 THEN Ok(<<n \div 256, n % 256>>)
    ELSE Raise(ErrPackRange)

\* 'I': four bytes, big-endian; n = <<hi, lo>>
PackI(n) ==
    IF n[1] >= 0 /\ n[1] <= 65535
    THEN Ok(<<n[1] \div 256, n[1] % 256, n[2] \div 256, n[2] % 256>>)
    ELSE Raise(ErrPackRange)

UnpackB(b) == b[1]
UnpackH(b) == b[1] * 256 + b[2]
UnpackI(b) == <<b[1] * 256 + b[2], b[3] * 256 + b[4]>>

\* the quiet bit of a NaN fraction (upper 23 bits)
Quiet(m) == IF m >= Pow2(22) THEN m ELSE m + Pow2(22)

\* (float)x : the 31-bit magnitude exp8 * 2^23 + mantissa of the single
\* nearest to the double x (round half to even), 255 * 2^23 and above is inf/NaN
RoundToSingle(x) ==
    IF x.exp = 2047
    THEN IF x.hi = 0 /\ x.lo = 0 THEN 255 * Pow2(23)
         ELSE 255 * Pow2(23) + Quiet(x.hi)
    ELSE IF x.exp = 0 THEN 0
    ELSE LET e == x.exp - 1023 IN
         IF e > 127 THEN 255 * Pow2(23)
         ELSE IF e >= -126
         THEN LET up == x.lo > Pow2(28) \/ (x.lo = Pow2(28) /\ x.hi % 2 = 1)
              IN  (e + 127) * Pow2(23) + x.hi + (IF up THEN 1 ELSE 0)
         ELSE LET shift == -126 - e IN
              IF shift > 24 THEN 0
              ELSE LET sig == Pow2(23) + x.hi
                       q == sig \div Pow2(shift)
                       r == sig % Pow2(shift)
                       half == Pow2(shift - 1)
                       up == r > half \/ (r = half /\ (x.lo # 0 \/ q % 2 = 1))
                   IN  q + (IF up THEN 1 ELSE 0)

IsFinite(x) == x.exp # 2047

\* 'f': four bytes, big-endian IEEE-754 single
PackF(x) ==
    LET n == RoundToSingle(x) IN
    IF n >= 255 * Pow2(23) /\ IsFinite(x) THEN Raise(ErrPackFloat)
    ELSE Ok(<<x.sign * 128 + n \div Pow2(24), (n \div Pow2(16)) % 256,
              (n \div 256) % 256, n % 256>>)

RECURSIVE TopBit(_)
TopBit(m) == IF m <= 1 THEN 0 ELSE 1 + TopBit(m \div 2)

\* the double equal to the single held in four bytes
UnpackF(b) ==
    LET sign == b[1] \div 128
        n == (b[1] % 128) * Pow2(24) + b[2] * Pow2(16) + b[3] * 256 + b[4]
        e8 == n \div Pow2(23)
        m == n % Pow2(23)
    IN  IF e8 = 255
        THEN [sign |-> sign, exp |-> 2047,
              hi |-> IF m = 0 THEN 0 ELSE Quiet(m), lo |-> 0]
        ELSE IF e8 = 0
        THEN IF m = 0 THEN [sign |-> sign, exp |-> 0, hi |-> 0, lo |-> 0]
             ELSE LET k == TopBit(m) IN
                  [sign |-> sign, exp |-> k + 874,
                   hi |-> (m - Pow2(k)) * Pow2(23 - k), lo |-> 0]
        ELSE [sign |-> sign, exp |-> e8 + 896, hi |-> m, lo |-> 0]

(***************************************************************************)
(* The codec                                                               *)
(***************************************************************************)
SensorReading(sensor_type, value) ==
    [sensor_type |-> sensor_type, value |-> value]

TelemetryPacket(version, msg_type, device_id, seq_num, timestamp, readings) ==
    [version |-> version, msg_type |-> msg_type, device_id |-> device_id,
     seq_num |-> seq_num, timestamp |-> timestamp, readings |-> readings]

\* struct.pack('!BBHII', ...): the fields are packed in order and the first
\* one out of range raises
encode_header(version, msg_type, device_id, seq_num, timestamp) ==
    LET v == PackB(version)
        m == PackB(msg_type)
        d == PackH(device_id)
        s == PackI(seq_num)
        t == PackI(timestamp)
    IN  IF ~v.ok THEN v
        ELSE IF ~m.ok THEN m
        ELSE IF ~d.ok THEN d
        ELSE IF ~s.ok THEN s
        ELSE IF ~t.ok THEN t
        ELSE Ok(v.val \o m.val \o d.val \o s.val \o t.val)

\* encode_reading with the float in little-endian order ('<Bf')
encode_reading_little_endian(sensor_type, value) ==
    LET t == PackB(sensor_type)
        f == PackF(value)
    IN  IF ~t.ok THEN t
        ELSE IF ~f.ok THEN f
        ELSE Ok(t.val \o <<f.val[4], f.val[3], f.val[2], f.val[1]>>)

\* struct.pack('!Bf', sensor_type, value)
encode_reading(sensor_type, value) ==
    LET t == PackB(sensor_type)
        f == PackF(value)
    IN  IF ~t.ok THEN t
        ELSE IF ~f.ok THEN f
        ELSE Ok(t.val \o f.val)

\* the loop "for reading in packet.readings: data += encode_reading(...)"
RECURSIVE EncodeReadings(_, _, _)
EncodeReadings(readings, i, data) ==
    IF i > Len(readings) THEN Ok(data)
    ELSE LET r == encode_reading(readings[i].sensor_type, readings[i].value)
         IN  IF ~r.ok THEN r
             ELSE EncodeReadings(readings, i + 1, data \o r.val)

\* encode_packet with the size computed without READING_SIZE
encode_packet_size_in_readings(packet) ==
    LET data == encode_header(packet.version, packet.msg_type,
                              packet.device_id, packet.seq_num,
                              packet.timestamp)
    IN  IF ~data.ok THEN data
        ELSE IF packet.msg_type = MSG_DATA
        THEN LET reading_count == Len(packet.readings)
                 size == HEADER_SIZE + 1 + reading_count
                 count == PackB(Len(packet.readings))
             IN  IF size > PAYLOAD_LIMIT THEN Raise(ErrPayload)
                 ELSE IF ~count.ok THEN count
                 ELSE EncodeReadings(packet.readings, 1, data.val \o count.val)
        ELSE data

\* encode_packet writing a reading section for every msg_type but INIT
encode_packet_unless_init(packet) ==
    LET data == encode_header(packet.version, packet.msg_type,
                              packet.device_id, packet.seq_num,
                              packet.timestamp)
    IN  IF ~data.ok THEN data
        ELSE IF packet.msg_type # MSG_INIT
        THEN LET reading_count == Len(packet.readings)
                 size == HEADER_SIZE + 1 + reading_count * READING_SIZE
                 count == PackB(Len(packet.readings))
             IN  IF size > PAYLOAD_LIMIT THEN Raise(ErrPayload)
                 ELSE IF ~count.ok THEN count
                 ELSE EncodeReadings(packet.readings, 1, data.val \o count.val)
        ELSE data

\* encode_packet checking the size before it looks at msg_type
encode_packet_size_first(packet) ==
    LET data == encode_header(packet.version, packet.msg_type,
                              packet.device_id, packet.seq_num,
                              packet.timestamp)
        reading_count == Len(packet.readings)
        size == HEADER_SIZE + 1 + reading_count * READING_SIZE
        count == PackB(Len(packet.readings))
    IN  IF ~data.ok THEN data
        ELSE IF size > PAYLOAD_LIMIT THEN Raise(ErrPayload)
        ELSE IF packet.msg_type = MSG_DATA
        THEN IF ~count.ok THEN count
             ELSE EncodeReadings(packet.readings, 1, data.val \o count.val)
        ELSE data

encode_packet(packet) ==
    LET data == encode_header(packet.version, packet.msg_type,
                              packet.device_id, packet.seq_num,
                              packet.timestamp)
    IN  IF ~data.ok THEN data
        ELSE IF packet.msg_type = MSG_DATA
        THEN LET reading_count == Len(packet.readings)
                 size == HEADER_SIZE + 1 + reading_count * READING_SIZE
                 count == PackB(Len(packet.readings))
             IN  IF size > PAYLOAD_LIMIT THEN Raise(ErrPayload)
                 ELSE IF ~count.ok THEN count
                 ELSE EncodeReadings(packet.readings, 1, data.val \o count.val)
        ELSE data

\* decode_header asking for more than HEADER_SIZE bytes
decode_header_off_by_one(data) ==
    IF Len(data) <= HEADER_SIZE THEN Raise(ErrHeaderShort)
    ELSE LET h == Slice(data, 0, HEADER_SIZE)
         IN  Ok(<<UnpackB(Slice(h, 0, 1)), UnpackB(Slice(h, 1, 2)),
                  UnpackH(Slice(h, 2, 4)), UnpackI(Slice(h, 4, 8)),
                  UnpackI(Slice(h, 8, 12))>>)

decode_header(data) ==
    IF Len(data) < HEADER_SIZE THEN Raise(ErrHeaderShort)
    ELSE LET h == Slice(data, 0, HEADER_SIZE)
         IN  Ok(<<UnpackB(Slice(h, 0, 1)), UnpackB(Slice(h, 1, 2)),
                  UnpackH(Slice(h, 2, 4)), UnpackI(Slice(h, 4, 8)),
                  UnpackI(Slice(h, 8, 12))>>)

\* struct.unpack('!Bf', data[:READING_SIZE]) wants exactly five bytes
decode_reading(data) ==
    LET d == Slice(data, 0, READING_SIZE)
    IN  IF Len(d) # READING_SIZE THEN Raise(ErrUnpackShort)
        ELSE Ok(<<UnpackB(Slice(d, 0, 1)), UnpackF(Slice(d, 1, 5))>>)

\* the loop stopping without an error where the buffer ends
DecodeReadings_relaxed(data, offset, count) ==
    LET Step(k) == decode_reading(Slice(data, offset + k * READING_SIZE,
                                        offset + k * READING_SIZE + READING_SIZE))
        whole == { k \in 0..(count - 1) : Step(k).ok }
    IN  Ok(SubSeq([k \in 1..Cardinality(whole) |->
                     SensorReading(Step(k - 1).val[1], Step(k - 1).val[2])],
                  1, Cardinality(whole)))

\* the loop "for _ in range(count)": iteration k (from 0) reads the slice at
\* offset + k * READING_SIZE; the first iteration that raises ends the call
DecodeReadings(data, offset, count) ==
    LET Step(k) == decode_reading(Slice(data, offset + k * READING_SIZE,
                                        offset + k * READING_SIZE + READING_SIZE))
        raised == { k \in 0..(count - 1) : ~Step(k).ok }
    IN  IF raised # {}
        THEN Step(CHOOSE k \in raised : \A j \in raised : k <= j)
        ELSE Ok(SubSeq([k \in 1..count |->
                          SensorReading(Step(k - 1).val[1], Step(k - 1).val[2])],
                       1, count))

\* decode_packet parsing a reading section for DATA only
decode_packet_gated(data) ==
    LET h == decode_header(data)
    IN  IF ~h.ok THEN h
        ELSE LET readings ==
                   IF Len(data) > HEADER_SIZE /\ h.val[2] = MSG_DATA
                   THEN LET count ==
                              UnpackB(Slice(data, HEADER_SIZE, HEADER_SIZE + 1))
                        IN  DecodeReadings(data, HEADER_SIZE + 1, count)
                   ELSE Ok(<< >>)
             IN  IF ~readings.ok THEN readings
                 ELSE Ok(TelemetryPacket(h.val[1], h.val[2], h.val[3],
                                         h.val[4], h.val[5], readings.val))

\* decode_packet refusing a buffer past PAYLOAD_LIMIT
decode_packet_ceiling(data) ==
    LET h == decode_header(data)
    IN  IF ~h.ok THEN h
        ELSE IF Len(data) > PAYLOAD_LIMIT THEN Raise(ErrPayload)
        ELSE LET readings ==
                   IF Len(data) > HEADER_SIZE
                   THEN LET count ==
                              UnpackB(Slice(data, HEADER_SIZE, HEADER_SIZE + 1))
                        IN  DecodeReadings(data, HEADER_SIZE + 1, count)
                   ELSE Ok(<< >>)
             IN  IF ~readings.ok THEN readings
                 ELSE Ok(TelemetryPacket(h.val[1], h.val[2], h.val[3],
                                         h.val[4], h.val[5], readings.val))

\* decode_packet refusing bytes after the declared section
decode_packet_strict(data) ==
    LET h == decode_header(data)
    IN  IF ~h.ok THEN h
        ELSE IF Len(data) > HEADER_SIZE
                /\ Len(data) > HEADER_SIZE + 1 + READING_SIZE * data[HEADER_SIZE + 1]
        THEN Raise("ValueError: trailing bytes")
        ELSE LET readings ==
                   IF Len(data) > HEADER_SIZE
                   THEN LET count ==
                              UnpackB(Slice(data, HEADER_SIZE, HEADER_SIZE + 1))
                        IN  DecodeReadings(data, HEADER_SIZE + 1, count)
                   ELSE Ok(<< >>)
             IN  IF ~readings.ok THEN readings
                 ELSE Ok(TelemetryPacket(h.val[1], h.val[2], h.val[3],
                                         h.val[4], h.val[5], readings.val))

decode_packet(data) ==
    LET h == decode_header(data)
    IN  IF ~h.ok THEN h
        ELSE LET readings ==
                   IF Len(data) > HEADER_SIZE
                   THEN LET count ==
                              UnpackB(Slice(data, HEADER_SIZE, HEADER_SIZE + 1))
                        IN  DecodeReadings(data, HEADER_SIZE + 1, count)
                   ELSE Ok(<< >>)
             IN  IF ~readings.ok THEN readings
                 ELSE Ok(TelemetryPacket(h.val[1], h.val[2], h.val[3],
                                         h.val[4], h.val[5], readings.val))

(***************************************************************************)
(* Inputs                                                                  *)
(***************************************************************************)
Extra == 2
MaxRot == 1
MaxSmallCount == 3
MaxTrail == 6

\* the largest reading count whose frame fits PAYLOAD_LIMIT
MaxN == (PAYLOAD_LIMIT - HEADER_SIZE - 1) \div READING_SIZE

Float(sign, exp, hi, lo) == [sign |-> sign, exp |-> exp, hi |-> hi, lo |-> lo]

\* 25.0, 60.5, 3.3 (not a single), -0.0, 2 - 2^-25 (rounds to 2.0),
\* 1e-45 (rounds to the least subnormal), 1 + 3 * 2^-24 (a tie), inf, nan,
\* -1.5e-40 (subnormal as a single)
ValidReadings ==
    << SensorReading(SENSOR_TEMP, Float(0, 1027, 4718592, 0)),
       SensorReading(SENSOR_HUM, Float(0, 1028, 7471104, 0)),
       SensorReading(SENSOR_VOLT, Float(0, 1024, 5452595, 107374182)),
       SensorReading(0, Float(1, 0, 0, 0)),
       SensorReading(255, Float(0, 1023, 8388607, 402653184)),
       SensorReading(200, Float(0, 873, 3584013, 221735609)),
       SensorReading(7, Float(0, 1023, 1, 268435456)),
       SensorReading(4, Float(0, 2047, 0, 0)),
       SensorReading(9, Float(0, 2047, 4194304, 0)),
       SensorReading(77, Float(1, 890, 5312969, 456328043)) >>

\* a sensor_type past one byte; 1e39 and 3.4028235677973366e38, both past the
\* largest single
BadReadings ==
    << SensorReading(256, Float(0, 1027, 4718592, 0)),
       SensorReading(SENSOR_TEMP, Float(0, 1152, 3937343, 345786909)),
       SensorReading(SENSOR_TEMP, Float(0, 1150, 8388607, 268435456)) >>

\* n readings taken cyclically from ValidReadings, the last one replaced by
\* BadReadings[bad] when bad > 0
ReadingList(n, rot, bad) ==
    SubSeq([i \in 1..n |->
              IF bad > 0 /\ i = n THEN BadReadings[bad]
              ELSE ValidReadings[((i - 1 + rot) % Len(ValidReadings)) + 1]],
           1, n)

\* 1234567890 = 18838 * 65536 + 722
DemoTimestamp == <<18838, 722>>

\* <<version, device_id, seq_num, timestamp>>; the last four hold one field
\* past its width each
HeaderFields ==
    { <<VERSION, 1001, <<0, 0>>, DemoTimestamp>>,
      <<VERSION, 1001, <<0, 1>>, DemoTimestamp>>,
      <<255, 65535, <<65535, 65535>>, <<65535, 65535>>>>,
      <<256, 1001, <<0, 7>>, <<0, 0>>>>,
      <<VERSION, 65536, <<0, 7>>, <<0, 0>>>>,
      <<2, 258, <<65536, 0>>, <<1, 2>>>>,
      <<0, 0, <<4660, 22136>>, <<65537, 3>>>> }

MsgTypes == {MSG_INIT, MSG_DATA, 2, 255, 257}

Packets ==
    { TelemetryPacket(f[1], m, f[2], f[3], f[4], ReadingList(n, rot, bad)) :
        f \in HeaderFields, m \in MsgTypes,
        n \in 0..(MaxN + Extra), rot \in 0..MaxRot,
        bad \in 0..Len(BadReadings) }

\* the wire form of ValidReadings
BodyBytes ==
    << 1, 65, 200, 0, 0,     2, 66, 114, 0, 0,    3, 64, 83, 51, 51,
       0, 128, 0, 0, 0,      255, 64, 0, 0, 0,    200, 0, 0, 0, 1,
       7, 63, 128, 0, 2,     4, 127, 128, 0, 0,   9, 127, 192, 0, 0,
       77, 128, 1, 162, 36 >>

HeaderBytes ==
    { <<1, 0, 3, 233, 0, 0, 0, 0, 73, 150, 2, 210>>,
      <<1, 1, 3, 233, 0, 0, 0, 1, 73, 150, 2, 210>>,
      <<2, 2, 255, 255, 255, 255, 255, 255, 0, 0, 0, 0>>,
      <<255, 255, 0, 0, 18, 52, 86, 120, 128, 0, 0, 1>> }

Counts == (0..MaxSmallCount) \cup {MaxN, MaxN + 1, 255}

\* a buffer of len bytes: a header, a count byte, then bytes of BodyBytes
Buffer(h, count, rot, len) ==
    SubSeq([i \in 1..len |->
              IF i <= HEADER_SIZE THEN h[i]
              ELSE IF i = HEADER_SIZE + 1 THEN count
              ELSE BodyBytes[((i - HEADER_SIZE - 2 + rot) % Len(BodyBytes)) + 1]],
           1, len)

\* lengths around the header and around the end of the declared section
Lengths(count) ==
    (0..(HEADER_SIZE + 2)) \cup
    { l \in (HEADER_SIZE + 1 + READING_SIZE * count - READING_SIZE - 1) ..
            (HEADER_SIZE + 1 + READING_SIZE * count + MaxTrail) : l >= 0 }

HeaderArgs ==
    { <<v, m, d, q, t>> :
        v \in {0, VERSION, 255, 256, 257},
        m \in {MSG_INIT, MSG_DATA, 255, 256},
        d \in {1001, 65535, 65536, 65537},
        q \in {<<0, 0>>, <<65535, 65535>>, <<65536, 0>>, <<65536, 1>>},
        t \in {DemoTimestamp, <<65537, 722>>} }

(***************************************************************************)
(* The callers.  input is what the caller holds: a packet to encode, a     *)
(* buffer to decode, or the arguments of encode_header.  enc, dec and hdr  *)
(* record the call made of each kind: its argument and what it returned or *)
(* raised.                                                                 *)
(***************************************************************************)
VARIABLES input, enc, dec, hdr

vars == <<input, enc, dec, hdr>>

Idle == [fn |-> "none"]
Call(fn, arg, ret) == [fn |-> fn, arg |-> arg, ret |-> ret]
Input(kind, val) == [kind |-> kind, val |-> val]

Init ==
    /\ \/ \E p \in Packets : input = Input("packet", p)
       \/ \E h \in HeaderBytes, c \in Counts, rot \in 0..MaxRot :
              \E l \in Lengths(c) : input = Input("buffer", Buffer(h, c, rot, l))
       \/ \E a \in HeaderArgs : input = Input("header", a)
    /\ enc = Idle
    /\ dec = Idle
    /\ hdr = Idle

\* the caller encodes its packet
EncodePacket ==
    /\ input.kind = "packet"
    /\ enc = Idle
    /\ enc' = Call("encode_packet", input.val, encode_packet(input.val))
    /\ UNCHANGED <<input, dec, hdr>>

\* the frame just produced is decoded
DecodeEncoded ==
    /\ input.kind = "packet"
    /\ enc.fn = "encode_packet"
    /\ enc.ret.ok
    /\ dec = Idle
    /\ dec' = Call("decode_packet", enc.ret.val, decode_packet(enc.ret.val))
    /\ UNCHANGED <<input, enc, hdr>>

\* a receiver decodes the buffer it was handed
DecodePacket ==
    /\ input.kind = "buffer"
    /\ dec = Idle
    /\ dec' = Call("decode_packet", input.val, decode_packet(input.val))
    /\ UNCHANGED <<input, enc, hdr>>

\* the packet just decoded is encoded again
ReEncode ==
    /\ input.kind = "buffer"
    /\ dec.fn = "decode_packet"
    /\ dec.ret.ok
    /\ enc = Idle
    /\ enc' = Call("encode_packet", dec.ret.val, encode_packet(dec.ret.val))
    /\ UNCHANGED <<input, dec, hdr>>

EncodeHeader ==
    /\ input.kind = "header"
    /\ hdr = Idle
    /\ hdr' = Call("encode_header", input.val,
                   encode_header(input.val[1], input.val[2], input.val[3],
                                 input.val[4], input.val[5]))
    /\ UNCHANGED <<input, enc, dec>>

DecodeHeader ==
    /\ input.kind = "buffer"
    /\ hdr = Idle
    /\ hdr' = Call("decode_header", input.val, decode_header(input.val))
    /\ UNCHANGED <<input, enc, dec>>

Next ==
    \/ EncodePacket
    \/ DecodeEncoded
    \/ DecodePacket
    \/ ReEncode
    \/ EncodeHeader
    \/ DecodeHeader

Spec == Init /\ [][Next]_vars

(***************************************************************************)
(* Vocabulary of the properties                                            *)
(***************************************************************************)
Encoded == enc.fn = "encode_packet"
Decoded == dec.fn = "decode_packet"

\* the header fields fit their declared widths
InRangeHeader(p) ==
    /\ p.version \in 0..255
    /\ p.msg_type \in 0..255
    /\ p.device_id \in 0..65535
    /\ p.seq_num[1] \in 0..65535 /\ p.seq_num[2] \in 0..65535
    /\ p.timestamp[1] \in 0..65535 /\ p.timestamp[2] \in 0..65535

\* |x| rounds to a finite single: below 2^128 - 2^103
InSingleRange(x) ==
    \/ x.exp = 2047
    \/ x.exp < 1150
    \/ x.exp = 1150 /\ ~(x.hi = 8388607 /\ x.lo >= 268435456)

ValidReading(r) == r.sensor_type \in 0..255 /\ InSingleRange(r.value)

WellFormed(p) ==
    /\ InRangeHeader(p)
    /\ \A i \in 1..Len(p.readings) : ValidReading(p.readings[i])

\* the 32-bit pattern a float is sent as
Bits32(x) == <<x.sign, RoundToSingle(x)>>

SameHeader(p, q) ==
    /\ q.version = p.version
    /\ q.msg_type = p.msg_type
    /\ q.device_id = p.device_id
    /\ q.seq_num = p.seq_num
    /\ q.timestamp = p.timestamp

\* the two failures a short buffer produces: the header check of
\* decode_header and the five-byte unpack of decode_reading
TooShort == {ErrHeaderShort, ErrUnpackShort}
PayloadTooLarge == ErrPayload

\* the count byte of a buffer and where its declared section ends
CountByte(b) == b[HEADER_SIZE + 1]
SectionEnd(b) == HEADER_SIZE + 1 + READING_SIZE * CountByte(b)

\* the k-th entry (from 1) of the reading section of buffer b, read directly
EntryType(b, k) == b[HEADER_SIZE + 1 + READING_SIZE * (k - 1) + 1]
EntryValue(b, k) ==
    UnpackF(SubSeq(b, HEADER_SIZE + 1 + READING_SIZE * (k - 1) + 2,
                      HEADER_SIZE + 1 + READING_SIZE * (k - 1) + 5))

(***************************************************************************)
(* Properties                                                              *)
(***************************************************************************)

\* C1: round trip of DATA packets.  For a packet with msg_type = DATA, header
\* fields within their widths and at most 37 valid readings, encode_packet
\* succeeds, and decoding the frame succeeds and gives the same five header
\* fields and as many readings, in the same order, each with the same
\* sensor_type and the same 32-bit value pattern.
C1_RoundTripData ==
    (input.kind = "packet" /\ Encoded /\ input.val.msg_type = MSG_DATA
       /\ WellFormed(input.val) /\ Len(input.val.readings) <= MaxN)
    => /\ enc.ret.ok
       /\ Decoded =>
            /\ dec.ret.ok
            /\ SameHeader(input.val, dec.ret.val)
            /\ Len(dec.ret.val.readings) = Len(input.val.readings)
            /\ \A i \in 1..Len(input.val.readings) :
                 /\ dec.ret.val.readings[i].sensor_type
                      = input.val.readings[i].sensor_type
                 /\ Bits32(dec.ret.val.readings[i].value)
                      = Bits32(input.val.readings[i].value)

\* a full DATA packet (37 readings, one of them 3.3, which is not a single)
\* went through encode_packet and decode_packet
C1_Witness ==
    /\ input.kind = "packet" /\ Encoded /\ Decoded
    /\ input.val.msg_type = MSG_DATA
    /\ WellFormed(input.val)
    /\ Len(input.val.readings) = MaxN
    /\ \E i \in 1..MaxN : input.val.readings[i].value.lo # 0
    /\ dec.ret.ok

\* C2 as stated: encode_packet of a DATA packet raises PayloadTooLarge exactly
\* when 12 + 1 + 5 * N > 200; it succeeds for every N <= 37, the frame being
\* 200 bytes long at N = 37, and fails for every N >= 38, returning no bytes.
C2_Original ==
    (input.kind = "packet" /\ Encoded /\ input.val.msg_type = MSG_DATA
       /\ InRangeHeader(input.val))
    => LET n == Len(input.val.readings) IN
       /\ (enc.ret = Raise(PayloadTooLarge)) <=> (12 + 1 + 5 * n > 200)
       /\ (n <= 37 /\ WellFormed(input.val)) => enc.ret.ok
       /\ (n = 37 /\ enc.ret.ok) => Len(enc.ret.val) = 200
       /\ n >= 38 => (~enc.ret.ok /\ DOMAIN enc.ret = {"ok", "err"})

\* C2 amended: as C2, but the frame is 198 bytes long at N = 37.
C2_SizeCeiling ==
    (input.kind = "packet" /\ Encoded /\ input.val.msg_type = MSG_DATA
       /\ InRangeHeader(input.val))
    => LET n == Len(input.val.readings) IN
       /\ (enc.ret = Raise(PayloadTooLarge)) <=> (12 + 1 + 5 * n > 200)
       /\ (n <= 37 /\ WellFormed(input.val)) => enc.ret.ok
       /\ (n = 37 /\ enc.ret.ok) => Len(enc.ret.val) = 198
       /\ n >= 38 => (~enc.ret.ok /\ DOMAIN enc.ret = {"ok", "err"})

\* encode_packet rejected a DATA packet of 38 readings
C2_Witness ==
    /\ input.kind = "packet" /\ Encoded
    /\ input.val.msg_type = MSG_DATA /\ InRangeHeader(input.val)
    /\ Len(input.val.readings) = 38
    /\ enc.ret = Raise(PayloadTooLarge)

\* C3: frame length law.  Whenever encode_packet succeeds the frame is 12
\* bytes long if msg_type # DATA and 13 + 5 * N bytes long if msg_type = DATA;
\* so it is longer than the header only for DATA, and never longer than 200.
C3_FrameLength ==
    (Encoded /\ enc.ret.ok)
    => /\ Len(enc.ret.val) =
            IF enc.arg.msg_type # MSG_DATA THEN 12
            ELSE 13 + 5 * Len(enc.arg.readings)
       /\ (Len(enc.ret.val) > 12) <=> (enc.arg.msg_type = MSG_DATA)
       /\ Len(enc.ret.val) <= 200

\* a packet that is not DATA and holds readings was encoded
C3_Witness ==
    /\ Encoded /\ enc.ret.ok
    /\ enc.arg.msg_type \notin {MSG_INIT, MSG_DATA}
    /\ Len(enc.arg.readings) > 0

\* C4: round trip of packets that are not DATA.  With header fields within
\* their widths and any readings (any number, valid or not), encode_packet
\* succeeds and decoding the frame gives the same header fields and no
\* readings.
C4_RoundTripNonData ==
    (input.kind = "packet" /\ Encoded /\ input.val.msg_type # MSG_DATA
       /\ InRangeHeader(input.val))
    => /\ enc.ret.ok
       /\ Decoded =>
            /\ dec.ret.ok
            /\ SameHeader(input.val, dec.ret.val)
            /\ dec.ret.val.readings = << >>

\* a packet that is not DATA, with more than 37 readings, went through
\* encode_packet and decode_packet
C4_Witness ==
    /\ input.kind = "packet" /\ Encoded /\ Decoded
    /\ input.val.msg_type # MSG_DATA /\ InRangeHeader(input.val)
    /\ Len(input.val.readings) > MaxN
    /\ dec.ret.ok

\* C5: short buffers.  On a buffer of fewer than 12 bytes decode_header and
\* decode_packet raise TooShort; on 12 bytes or more decode_header returns
\* the five fields read big-endian at offsets 0, 1, 2, 4 and 8, whatever
\* their values.
C5_ShortBuffer ==
    /\ hdr.fn = "decode_header" =>
         IF Len(hdr.arg) <= 11
         THEN hdr.ret = Raise(ErrHeaderShort)
         ELSE /\ hdr.ret.ok
              /\ hdr.ret.val =
                   << hdr.arg[1], hdr.arg[2],
                      256 * hdr.arg[3] + hdr.arg[4],
                      <<256 * hdr.arg[5] + hdr.arg[6],
                        256 * hdr.arg[7] + hdr.arg[8]>>,
                      <<256 * hdr.arg[9] + hdr.arg[10],
                        256 * hdr.arg[11] + hdr.arg[12]>> >>
    /\ (Decoded /\ Len(dec.arg) <= 11) => dec.ret = Raise(ErrHeaderShort)

\* both decoders were called on a buffer of 11 bytes
C5_Witness ==
    /\ hdr.fn = "decode_header" /\ Decoded
    /\ Len(hdr.arg) = 11 /\ Len(dec.arg) = 11
    /\ ~hdr.ret.ok /\ ~dec.ret.ok

\* C6: a truncated reading section is rejected.  On a buffer longer than 12
\* bytes and shorter than 13 + 5 * count, decode_packet raises TooShort; and
\* a packet it returns from a buffer longer than 12 bytes never holds fewer
\* readings than the count byte declares.
C6_Truncated ==
    (Decoded /\ Len(dec.arg) > 12)
    => /\ Len(dec.arg) < SectionEnd(dec.arg) =>
            (~dec.ret.ok /\ dec.ret.err \in TooShort)
       /\ dec.ret.ok => Len(dec.ret.val.readings) >= CountByte(dec.arg)

\* decode_packet was called on a buffer that holds one whole reading and
\* part of a second one, of two declared
C6_Witness ==
    /\ Decoded /\ Len(dec.arg) > 12 + 1 + 5
    /\ CountByte(dec.arg) = 2
    /\ Len(dec.arg) < SectionEnd(dec.arg)
    /\ ~dec.ret.ok

\* each argument of encode_header fits the width of its field
InRangeArgs(a) ==
    /\ a[1] \in 0..255
    /\ a[2] \in 0..255
    /\ a[3] \in 0..65535
    /\ a[4][1] \in 0..65535
    /\ a[5][1] \in 0..65535

\* the 12 bytes holding each argument modulo 2^width, big-endian
HeaderModWidth(a) ==
    << a[1] % 256, a[2] % 256,
       (a[3] % 65536) \div 256, a[3] % 256,
       (a[4][1] % 65536) \div 256, a[4][1] % 256,
       a[4][2] \div 256, a[4][2] % 256,
       (a[5][1] % 65536) \div 256, a[5][1] % 256,
       a[5][2] \div 256, a[5][2] % 256 >>

\* C7 as stated: encode_header never raises; for non-negative arguments of
\* any size it returns 12 bytes holding each argument modulo 2^width
\* (8, 8, 16, 32, 32 bits), big-endian.
C7_Original ==
    hdr.fn = "encode_header"
    => (hdr.ret.ok /\ hdr.ret.val = HeaderModWidth(hdr.arg))

\* C7 amended: for non-negative arguments within the widths of their fields
\* encode_header returns 12 bytes holding them big-endian; when an argument
\* exceeds the width of its field it raises struct.error and returns no
\* bytes: nothing is truncated.
C7_HeaderRange ==
    hdr.fn = "encode_header"
    => IF InRangeArgs(hdr.arg)
       THEN /\ hdr.ret.ok
            /\ Len(hdr.ret.val) = 12
            /\ hdr.ret.val = HeaderModWidth(hdr.arg)
       ELSE hdr.ret = Raise(ErrPackRange)

\* encode_header was called with a device_id of 65536 or more
C7_Witness ==
    /\ hdr.fn = "encode_header"
    /\ hdr.arg[1] \in 0..255 /\ hdr.arg[2] \in 0..255
    /\ hdr.arg[3] > 65535
    /\ ~hdr.ret.ok

\* C8: the buffer length alone decides whether a reading section is parsed.
\* On a buffer of exactly 12 bytes decode_packet returns no readings, DATA
\* or not; on a longer buffer that holds the declared section it returns
\* count readings taken from the bytes after the count byte, DATA or not.
C8_LengthTrigger ==
    Decoded
    => /\ Len(dec.arg) = 12 => (dec.ret.ok /\ dec.ret.val.readings = << >>)
       /\ (Len(dec.arg) > 12 /\ Len(dec.arg) >= SectionEnd(dec.arg))
          => /\ dec.ret.ok
             /\ dec.ret.val.msg_type = dec.arg[2]
             /\ Len(dec.ret.val.readings) = CountByte(dec.arg)
             /\ \A k \in 1..CountByte(dec.arg) :
                  dec.ret.val.readings[k] =
                      SensorReading(EntryType(dec.arg, k),
                                    EntryValue(dec.arg, k))

\* a header that is not DATA followed by a whole reading section was decoded
\* to a packet with readings
C8_Witness ==
    /\ Decoded /\ Len(dec.arg) > 12
    /\ dec.arg[2] # MSG_DATA
    /\ dec.ret.ok
    /\ dec.ret.val.readings # << >>

\* C9: the 200-byte ceiling is enforced on encode only.  decode_packet never
\* raises PayloadTooLarge; on a buffer that holds the section its count byte
\* declares (0 to 255 readings, so frames past 200 bytes too) it returns
\* that many readings in buffer order; and encoding a decoded DATA packet of
\* 38 readings or more raises PayloadTooLarge.
C9_CeilingOnEncodeOnly ==
    Decoded
    => /\ ~dec.ret.ok => dec.ret.err # PayloadTooLarge
       /\ (Len(dec.arg) > 12 /\ Len(dec.arg) >= SectionEnd(dec.arg))
          => /\ dec.ret.ok
             /\ Len(dec.ret.val.readings) = CountByte(dec.arg)
             /\ \A k \in 1..CountByte(dec.arg) :
                  dec.ret.val.readings[k].sensor_type = EntryType(dec.arg, k)
       /\ (input.kind = "buffer" /\ Encoded /\ dec.ret.val.msg_type = MSG_DATA
             /\ Len(dec.ret.val.readings) >= 38)
          => enc.ret = Raise(PayloadTooLarge)

\* a DATA frame of 255 readings was decoded, and encoding the result failed
C9_Witness ==
    /\ input.kind = "buffer" /\ Decoded /\ Encoded
    /\ Len(dec.arg) > PAYLOAD_LIMIT
    /\ dec.ret.ok
    /\ dec.ret.val.msg_type = MSG_DATA
    /\ Len(dec.ret.val.readings) = 255
    /\ enc.ret = Raise(PayloadTooLarge)

\* C10: bytes past the declared reading section are ignored.  On a buffer
\* longer than 12 bytes that holds its declared section, decode_packet
\* succeeds and returns what it returns on the buffer cut at the end of that
\* section.
C10_TrailingIgnored ==
    (Decoded /\ Len(dec.arg) > 12 /\ Len(dec.arg) >= SectionEnd(dec.arg))
    => /\ dec.ret.ok
       /\ dec.ret = decode_packet(SubSeq(dec.arg, 1, SectionEnd(dec.arg)))
       /\ Len(dec.ret.val.readings) = CountByte(dec.arg)

\* a DATA buffer with bytes after its section was decoded, and encoding the
\* result gave a frame other than the buffer
C10_Witness ==
    /\ input.kind = "buffer" /\ Decoded /\ Encoded
    /\ dec.arg[2] = MSG_DATA
    /\ Len(dec.arg) > SectionEnd(dec.arg)
    /\ dec.ret.ok
    /\ enc.ret.ok
    /\ enc.ret.val # dec.arg
    /\ enc.ret.val = SubSeq(dec.arg, 1, SectionEnd(dec.arg))

====
